---- MODULE Spec2Model ----
(***************************************************************************)
(* Model of node-dmx-timeline-animator (src/index.js).                     *)
(*                                                                         *)
(* The specifications share the variables:                                 *)
(*   SpecResolve  createAnimation as a pure function: Init draws the       *)
(*                timeline, the presets and the start time from bounded    *)
(*                sets and the action Resolve applies createAnimation.     *)
(*   SpecPass     one call of createAnimation statement by statement, its  *)
(*                channel-state objects held in a heap and named by        *)
(*                reference.                                               *)
(*   Spec         main / runAnimation / handleShutdown and their timers,   *)
(*                with time advancing in ticks of TickMs milliseconds.     *)
(*   FairSpec     Spec with the fairness of the event loop.                *)
(* Times of events, durations and start times are whole seconds; step      *)
(* durations and timers are milliseconds.                                  *)
(***************************************************************************)
EXTENDS FiniteSets, Integers, Sequences, TLC

VARIABLES
    timeline,         \* the loaded timeline: [events, duration]
    presets,          \* the loaded presets table
    startTime,        \* options.start, seconds
    shouldLoop,       \* options.loop
    loopInterval,     \* options.interval, converted to ms
    initialDelay,     \* options.wait, converted to ms
    resolved,         \* SpecResolve: the steps createAnimation returned
    rpc,              \* SpecResolve: "input" | "resolved"
    pass,             \* SpecPass: the locals of one createAnimation call
    pc,               \* Spec: "main" | "running" | "exited"
    now,              \* Spec: ms since main reached line 285
    timers,           \* Spec: pending setTimeout callbacks, in arming order
    anims,            \* Spec: every Animation object created so far
    currentAnimation, \* Spec: 0 (null) or the index in anims of the handle
    device,           \* Spec: the last state the universe received
    exitCode,         \* Spec: -1 while the process lives, else the code
    signalsHandled,   \* Spec: number of handleShutdown invocations
    runs,             \* Spec: number of runAnimation entries
    lastCalls,        \* Spec: calls on animation/universe made by the last handler
    blackouts,        \* Spec: universe.update(blackoutState) calls since the first signal
    runsAfterSignal,  \* Spec: runAnimation entries since the first signal
    frameAfterSignal  \* Spec: a playback frame was sent since the first signal

inputs == <<timeline, presets, startTime, shouldLoop, loopInterval, initialDelay>>
resolverVars == <<resolved, rpc, pass>>
controlVars == <<pc, now, timers, anims, currentAnimation, device, exitCode,
                 signalsHandled, runs, lastCalls, blackouts,
                 runsAfterSignal, frameAfterSignal>>
vars == <<inputs, resolverVars, controlVars>>

----------------------------------------------------------------------------
(* Bounds *)

MaxEvents == 2        \* longest event list drawn in SpecResolve
MaxTicks == 10        \* Spec explores this many ticks of time
MaxSignals == 2       \* Spec delivers at most this many signals

(* Program constants *)

NumChannels == 512
GraceMs == 500
BufferMs == 500

(* granularity of time in Spec: half the grace period *)
TickMs == GraceMs \div 2

----------------------------------------------------------------------------
(* Input domains *)

ChannelArrays == {<<255>>, <<0, 128>>}

PresetNames == {"blue", "missing"}

BluePreset == [name |-> "blue", channels |-> <<0, 0, 255>>]

(* a second entry with the same name: presets.find returns the first *)
ShadowPreset == [name |-> "blue", channels |-> <<7>>]

PresetTable == <<BluePreset, ShadowPreset>>

(* seconds: events before, at and after the start, and after the duration *)
EventTimes == {0, 1, 2}

Durations == {1, 2}

ResolveStartTimes == {0, 1, 2, 3}

(* inputs of Spec *)
TwoEvents ==
    [events |-> <<[time |-> 1, type |-> "preset", presetName |-> "blue"],
                  [time |-> 0, type |-> "custom", channels |-> <<255>>]>>,
     duration |-> 2]

(* an event later than the declared duration *)
LateEvent ==
    [events |-> <<[time |-> 2, type |-> "custom", channels |-> <<0, 128>>]>>,
     duration |-> 1]

ControlTimelines == {TwoEvents, LateEvent}

StartTimes == {0, 1}

LoopIntervals == {0, TickMs, 4 * TickMs}

InitialDelays == {0, TickMs, 4 * TickMs}

Signals == {"SIGINT", "SIGTERM", "SIGQUIT"}

(* custom events with a channels array and preset events at every time; a
   custom event with an empty array and one without an array at time 1 *)
EventPool ==
    [time : EventTimes, type : {"custom"}, channels : ChannelArrays]
    \cup [time : EventTimes, type : {"preset"}, presetName : PresetNames]
    \cup {[time |-> 1, type |-> "custom", channels |-> <<>>],
          [time |-> 1, type |-> "custom"]}

RECURSIVE SeqsUpTo(_, _)
SeqsUpTo(S, n) ==
    IF n = 0 THEN {<<>>}
    ELSE LET shorter == SeqsUpTo(S, n - 1)
         IN  shorter \cup {Append(s, e) : s \in {t \in shorter : Len(t) = n - 1}, e \in S}

----------------------------------------------------------------------------
(* createAnimation, src/index.js 77-154 *)

(* [...timelineEvents].sort((a, b) => a.time - b.time): a stable sort *)
RECURSIVE InsertByTime(_, _)
InsertByTime(sorted, event) ==
    IF sorted = <<>> THEN <<event>>
    ELSE IF sorted[Len(sorted)].time <= event.time THEN Append(sorted, event)
    ELSE Append(InsertByTime(SubSeq(sorted, 1, Len(sorted) - 1), event),
                sorted[Len(sorted)])

RECURSIVE SortFrom(_, _, _)
SortFrom(events, i, sorted) ==
    IF i > Len(events) THEN sorted
    ELSE SortFrom(events, i + 1, InsertByTime(sorted, events[i]))

(* mutant of SortByTime: the events are taken in input order *)
SortByTime_unsorted(events) == events

SortByTime(events) == SortFrom(events, 1, <<>>)

(* initialState: all channels at 0 *)
ZeroState == [c \in 1..NumChannels |-> 0]

(* mutant of ForEachChannel: the result holds the listed channels only *)
ForEachChannel_partial(state, channels) ==
    [c \in 1..Len(channels) |-> channels[c]]

(* channels.forEach((value, index) => { state[index + 1] = value; }) *)
ForEachChannel(state, channels) ==
    [c \in (DOMAIN state) \cup (1..Len(channels)) |->
        IF c <= Len(channels) THEN channels[c] ELSE state[c]]

(* presets.find((p) => p.name === name): index of the first match, 0 if none *)
FindPreset(table, name) ==
    LET matches == {k \in 1..Len(table) : table[k].name = name}
    IN  IF matches = {} THEN 0
        ELSE CHOOSE k \in matches : \A m \in matches : k <= m

(* mutant of LastEventBeforeStart: shift() in place of pop() *)
LastEventBeforeStart_first(sortedEvents, start) ==
    LET before == SelectSeq(sortedEvents, LAMBDA e : e.time <= start)
    IN  IF before = <<>> THEN <<>> ELSE <<before[1]>>

(* sortedEvents.filter((event) => event.time <= startTime).pop():
   <<>> stands for undefined, else a one-element sequence *)
LastEventBeforeStart(sortedEvents, start) ==
    LET before == SelectSeq(sortedEvents, LAMBDA e : e.time <= start)
    IN  IF before = <<>> THEN <<>> ELSE <<before[Len(before)]>>

(* lines 91-111: the seed state *)
SeedState(sortedEvents, table, start) ==
    LET last == LastEventBeforeStart(sortedEvents, start)
    IN  IF last = <<>> THEN ZeroState
        ELSE LET event == last[1]
             IN  IF event.type = "custom" /\ "channels" \in DOMAIN event
                 THEN ForEachChannel(ZeroState, event.channels)
                 ELSE IF event.type = "preset"
                 THEN LET k == FindPreset(table, event.presetName)
                      IN  IF k # 0 THEN ForEachChannel(ZeroState, table[k].channels)
                          ELSE ZeroState
                 ELSE ZeroState

(* mutant of TargetState: the target starts from the zero state *)
TargetState_replace(currentState, event, table) ==
    IF event.type = "custom" /\ "channels" \in DOMAIN event
    THEN ForEachChannel(ZeroState, event.channels)
    ELSE IF event.type = "preset"
    THEN LET k == FindPreset(table, event.presetName)
         IN  IF k # 0 THEN ForEachChannel(ZeroState, table[k].channels)
             ELSE currentState
    ELSE currentState

(* mutant of TargetState: an unknown preset blacks the target out *)
TargetState_unknownResets(currentState, event, table) ==
    IF event.type = "custom" /\ "channels" \in DOMAIN event
    THEN ForEachChannel(currentState, event.channels)
    ELSE IF event.type = "preset"
    THEN LET k == FindPreset(table, event.presetName)
         IN  IF k # 0 THEN ForEachChannel(currentState, table[k].channels)
             ELSE ZeroState
    ELSE currentState

(* lines 124-137: the target state of one event *)
TargetState(currentState, event, table) ==
    IF event.type = "custom" /\ "channels" \in DOMAIN event
    THEN ForEachChannel(currentState, event.channels)
    ELSE IF event.type = "preset"
    THEN LET k == FindPreset(table, event.presetName)
         IN  IF k # 0 THEN ForEachChannel(currentState, table[k].channels)
             ELSE currentState
    ELSE currentState

(* animation.add(to, duration) *)
AnimationAdd(animation, to, duration) ==
    Append(animation, [to |-> to, duration |-> duration])

(* lines 118-145: the for loop from index i on *)
RECURSIVE EventLoop(_, _, _, _, _, _, _)
EventLoop(sortedEvents, table, start, i, currentState, lastEventTime, animation) ==
    IF i > Len(sortedEvents)
    THEN [currentState |-> currentState, lastEventTime |-> lastEventTime,
          animation |-> animation]
    ELSE LET event == sortedEvents[i]
         IN  IF event.time < start
             THEN EventLoop(sortedEvents, table, start, i + 1,
                            currentState, lastEventTime, animation)
             ELSE LET eventDuration == (event.time - lastEventTime) * 1000
                      targetState == TargetState(currentState, event, table)
                  IN  EventLoop(sortedEvents, table, start, i + 1, targetState,
                                event.time,
                                AnimationAdd(animation, targetState, eventDuration))

(* mutant of FinalState: the hold is measured from the start of the timeline *)
FinalState_whole(animation, currentState, lastEventTime, duration) ==
    IF lastEventTime < duration
    THEN AnimationAdd(animation, currentState, duration * 1000)
    ELSE animation

(* mutant of FinalState: no hold when no event was processed *)
FinalState_skipEmpty(animation, currentState, lastEventTime, duration) ==
    IF lastEventTime < duration /\ Len(animation) > 1
    THEN AnimationAdd(animation, currentState, (duration - lastEventTime) * 1000)
    ELSE animation

(* lines 147-151: the final hold *)
FinalState(animation, currentState, lastEventTime, duration) ==
    IF lastEventTime < duration
    THEN AnimationAdd(animation, currentState, (duration - lastEventTime) * 1000)
    ELSE animation

createAnimation(timelineEvents, table, duration, start) ==
    LET sortedEvents == SortByTime(timelineEvents)
        seed == SeedState(sortedEvents, table, start)
        loop == EventLoop(sortedEvents, table, start, 1, seed, start,
                          AnimationAdd(<<>>, seed, 0))
    IN  FinalState(loop.animation, loop.currentState, loop.lastEventTime, duration)

----------------------------------------------------------------------------
(* SpecResolve *)

(* no call of createAnimation is in progress *)
PassIdle ==
    [pc |-> "entry", sortedEvents |-> <<>>, heap |-> <<>>, currentState |-> 0,
     animation |-> <<>>, i |-> 0, lastEventTime |-> 0]

ControlIdle ==
    /\ pc = "main"
    /\ now = 0
    /\ timers = <<>>
    /\ anims = <<>>
    /\ currentAnimation = 0
    /\ device = ZeroState
    /\ exitCode = -1
    /\ signalsHandled = 0
    /\ runs = 0
    /\ lastCalls = <<>>
    /\ blackouts = 0
    /\ runsAfterSignal = 0
    /\ frameAfterSignal = FALSE

InitResolve ==
    /\ timeline \in [events : SeqsUpTo(EventPool, MaxEvents), duration : Durations]
    /\ presets = PresetTable
    /\ startTime \in ResolveStartTimes
    /\ shouldLoop = FALSE
    /\ loopInterval = 0
    /\ initialDelay = 0
    /\ resolved = <<>>
    /\ rpc = "input"
    /\ pass = PassIdle
    /\ ControlIdle

Resolve ==
    /\ rpc = "input"
    /\ resolved' = createAnimation(timeline.events, presets, timeline.duration, startTime)
    /\ rpc' = "resolved"
    /\ UNCHANGED <<inputs, pass, controlVars>>

NextResolve == Resolve

SpecResolve == InitResolve /\ [][NextResolve]_vars

----------------------------------------------------------------------------
(* SpecPass: createAnimation one statement group at a time.  Channel-state
   objects live in pass.heap and are named by their index; a step of
   pass.animation holds the reference it was added with. *)

PassEvents ==
    [time : EventTimes, type : {"custom"}, channels : ChannelArrays]
    \cup {[time |-> 1, type |-> "preset", presetName |-> "blue"]}

(* the reference of initialState *)
InitialStateRef == 1

(* mutant of CopyState: the new name refers to the same object *)
CopyState_alias(heap, ref) == [heap |-> heap, ref |-> ref]

(* { ...state }: a new object with the properties of heap[ref] *)
CopyState(heap, ref) == [heap |-> Append(heap, heap[ref]), ref |-> Len(heap) + 1]

InitPass ==
    /\ timeline \in [events : SeqsUpTo(PassEvents, MaxEvents), duration : Durations]
    /\ presets = PresetTable
    /\ startTime \in StartTimes
    /\ shouldLoop = FALSE
    /\ loopInterval = 0
    /\ initialDelay = 0
    /\ resolved = <<>>
    /\ rpc = "input"
    /\ pass = PassIdle
    /\ ControlIdle

(* lines 78-85: the sorted copy, the Animation and initialState *)
Enter ==
    /\ pass.pc = "entry"
    /\ pass' = [PassIdle EXCEPT !.pc = "seed",
                                !.sortedEvents = SortByTime(timeline.events),
                                !.heap = <<ZeroState>>]
    /\ UNCHANGED <<inputs, resolved, rpc, controlVars>>

(* lines 88-116: currentState is a copy of initialState, written in place
   from lastEventBeforeStart, and added as the first step *)
Seed ==
    /\ pass.pc = "seed"
    /\ LET copy == CopyState(pass.heap, InitialStateRef)
           last == LastEventBeforeStart(pass.sortedEvents, startTime)
       IN  pass' = [pass EXCEPT
                       !.pc = "loop",
                       !.heap = IF last = <<>> THEN copy.heap
                                ELSE [copy.heap EXCEPT
                                         ![copy.ref] = TargetState(@, last[1], presets)],
                       !.currentState = copy.ref,
                       !.animation = AnimationAdd(<<>>, copy.ref, 0),
                       !.lastEventTime = startTime,
                       !.i = 1]
    /\ UNCHANGED <<inputs, resolved, rpc, controlVars>>

(* lines 118-145: one iteration of the for loop *)
LoopStep ==
    /\ pass.pc = "loop"
    /\ pass.i <= Len(pass.sortedEvents)
    /\ LET event == pass.sortedEvents[pass.i]
           copy == CopyState(pass.heap, pass.currentState)
       IN  IF event.time < startTime
           THEN pass' = [pass EXCEPT !.i = @ + 1]
           ELSE pass' = [pass EXCEPT
                            !.heap = [copy.heap EXCEPT
                                         ![copy.ref] = TargetState(@, event, presets)],
                            !.animation = AnimationAdd(@, copy.ref,
                                             (event.time - pass.lastEventTime) * 1000),
                            !.currentState = copy.ref,
                            !.lastEventTime = event.time,
                            !.i = @ + 1]
    /\ UNCHANGED <<inputs, resolved, rpc, controlVars>>

(* lines 147-153: the final hold adds currentState itself, then return *)
Return ==
    /\ pass.pc = "loop"
    /\ pass.i > Len(pass.sortedEvents)
    /\ pass' = [pass EXCEPT
                    !.pc = "returned",
                    !.animation = FinalState(@, pass.currentState, pass.lastEventTime,
                                             timeline.duration)]
    /\ UNCHANGED <<inputs, resolved, rpc, controlVars>>

NextPass ==
    \/ Enter
    \/ Seed
    \/ LoopStep
    \/ Return

SpecPass == InitPass /\ [][NextPass]_vars

----------------------------------------------------------------------------
(* main, runAnimation, handleShutdown: src/index.js 202-291 *)

(* the Animation object of dmx-ts as the program uses it: add, run, runLoop,
   stop.  A running animation sends frames to the universe; the frame sent
   when `elapsed` ms have passed is modelled as the target of the last step
   whose end has been reached (values interpolated on the way to the next
   target are not modelled). *)
RECURSIVE TotalDuration(_)
TotalDuration(steps) ==
    IF steps = <<>> THEN 0
    ELSE steps[Len(steps)].duration + TotalDuration(SubSeq(steps, 1, Len(steps) - 1))

RECURSIVE LastReached(_, _, _)
LastReached(steps, k, elapsed) ==
    IF k = 1 \/ TotalDuration(SubSeq(steps, 1, k)) <= elapsed THEN k
    ELSE LastReached(steps, k - 1, elapsed)

FrameState(h, at) == h.steps[LastReached(h.steps, Len(h.steps), at - h.startedAt)].to

Finished(h, at) == at - h.startedAt >= TotalDuration(h.steps)

(* setTimeout(callback, delay): a delay below 1 ms fires as soon as possible *)
SetTimeout(pending, callback, delay) ==
    Append(pending, [callback |-> callback,
                     due |-> now + (IF delay > 0 THEN delay ELSE 0)])

RemoveAt(seq, k) == SubSeq(seq, 1, k - 1) \o SubSeq(seq, k + 1, Len(seq))

(* a timer may fire when it is due and no pending timer is due earlier *)
Due(k) ==
    /\ timers[k].due <= now
    /\ \A m \in 1..Len(timers) : timers[k].due <= timers[m].due

(* universe.update(blackoutState) *)
Blackout == device' = ZeroState

(* mutant of NewAnimation: iterations after the first resolve from 0 *)
NewAnimation_restartFromZero ==
    [steps |-> createAnimation(timeline.events, presets, timeline.duration,
                               IF runs = 0 THEN startTime ELSE 0),
     startedAt |-> now,
     running |-> TRUE,
     loop |-> shouldLoop /\ loopInterval = 0]

(* lines 208-213 and the run / runLoop call that follows *)
NewAnimation ==
    [steps |-> createAnimation(timeline.events, presets, timeline.duration, startTime),
     startedAt |-> now,
     running |-> TRUE,
     loop |-> shouldLoop /\ loopInterval = 0]

(* runAnimation, lines 206-258, entered with `pending` timers armed *)
runAnimation(pending) ==
    LET totalDuration == (timeline.duration - startTime) * 1000
    IN  /\ anims' = Append(anims, NewAnimation)
        /\ currentAnimation' = Len(anims) + 1
        /\ runs' = runs + 1
        /\ runsAfterSignal' = IF signalsHandled > 0 THEN runsAfterSignal + 1
                              ELSE runsAfterSignal
        /\ IF shouldLoop
           THEN IF loopInterval > 0
                THEN /\ timers' = SetTimeout(pending, "loopPause", totalDuration + BufferMs)
                     /\ lastCalls' = <<"run">>
                ELSE /\ timers' = pending
                     /\ lastCalls' = <<"runLoop">>
           ELSE /\ timers' = SetTimeout(pending, "completed", totalDuration + BufferMs)
                /\ lastCalls' = <<"run">>
        /\ UNCHANGED <<device, exitCode, signalsHandled, blackouts, frameAfterSignal>>

(* main, lines 285-291 *)
Main ==
    /\ pc = "main"
    /\ pc' = "running"
    /\ IF initialDelay > 0
       THEN /\ timers' = SetTimeout(timers, "initialDelay", initialDelay)
            /\ UNCHANGED <<anims, currentAnimation, device, exitCode, signalsHandled,
                           runs, lastCalls, blackouts, runsAfterSignal,
                           frameAfterSignal>>
       ELSE runAnimation(timers)
    /\ UNCHANGED <<inputs, resolverVars, now>>

(* the timer of line 288 fires *)
InitialDelayElapsed ==
    /\ pc = "running"
    /\ \E k \in 1..Len(timers) :
          /\ Due(k)
          /\ timers[k].callback = "initialDelay"
          /\ runAnimation(RemoveAt(timers, k))
    /\ UNCHANGED <<inputs, resolverVars, pc, now>>

(* the timer of line 241 fires *)
LoopIntervalElapsed ==
    /\ pc = "running"
    /\ \E k \in 1..Len(timers) :
          /\ Due(k)
          /\ timers[k].callback = "loopInterval"
          /\ runAnimation(RemoveAt(timers, k))
    /\ UNCHANGED <<inputs, resolverVars, pc, now>>

(* mutant of LoopPause: the next loop is armed without the blackout *)
LoopPause_noBlackout ==
    /\ pc = "running"
    /\ \E k \in 1..Len(timers) :
          /\ Due(k)
          /\ timers[k].callback = "loopPause"
          /\ timers' = SetTimeout(RemoveAt(timers, k), "loopInterval", loopInterval)
    /\ lastCalls' = <<>>
    /\ UNCHANGED <<inputs, resolverVars, pc, now, anims, currentAnimation, exitCode,
                   signalsHandled, runs, runsAfterSignal, frameAfterSignal,
                   device, blackouts>>

(* the callback of lines 228-242 *)
LoopPause ==
    /\ pc = "running"
    /\ \E k \in 1..Len(timers) :
          /\ Due(k)
          /\ timers[k].callback = "loopPause"
          /\ timers' = SetTimeout(RemoveAt(timers, k), "loopInterval", loopInterval)
    /\ Blackout
    /\ blackouts' = IF signalsHandled > 0 THEN blackouts + 1 ELSE blackouts
    /\ lastCalls' = <<"update">>
    /\ UNCHANGED <<inputs, resolverVars, pc, now, anims, currentAnimation, exitCode,
                   signalsHandled, runs, runsAfterSignal, frameAfterSignal>>

(* mutant of ProcessExit: the process ends with a failure code *)
ProcessExit_failure ==
    /\ pc' = "exited"
    /\ exitCode' = 1

(* process.exit(0) *)
ProcessExit ==
    /\ pc' = "exited"
    /\ exitCode' = 0

(* the callback of lines 253-256 *)
Completed ==
    /\ pc = "running"
    /\ \E k \in 1..Len(timers) :
          /\ Due(k)
          /\ timers[k].callback = "completed"
          /\ timers' = RemoveAt(timers, k)
    /\ ProcessExit
    /\ lastCalls' = <<>>
    /\ UNCHANGED <<inputs, resolverVars, now, anims, currentAnimation, device,
                   signalsHandled, runs, blackouts, runsAfterSignal, frameAfterSignal>>

(* the callback of lines 274-277 *)
Stopped ==
    /\ pc = "running"
    /\ \E k \in 1..Len(timers) :
          /\ Due(k)
          /\ timers[k].callback = "stopped"
          /\ timers' = RemoveAt(timers, k)
    /\ ProcessExit
    /\ lastCalls' = <<>>
    /\ UNCHANGED <<inputs, resolverVars, now, anims, currentAnimation, device,
                   signalsHandled, runs, blackouts, runsAfterSignal, frameAfterSignal>>

(* currentAnimation.stop() *)
AnimationStop(handles, k) == [handles EXCEPT ![k].running = FALSE]

(* mutant of handleShutdown: the blackout is sent before the stop *)
handleShutdown_blackoutFirst ==
    /\ anims' = IF currentAnimation # 0 THEN AnimationStop(anims, currentAnimation)
                ELSE anims
    /\ Blackout
    /\ blackouts' = blackouts + 1
    /\ lastCalls' = <<"update">> \o (IF currentAnimation # 0 THEN <<"stop">> ELSE <<>>)
    /\ timers' = SetTimeout(timers, "stopped", GraceMs)
    /\ signalsHandled' = signalsHandled + 1
    /\ UNCHANGED <<currentAnimation, exitCode, runs, runsAfterSignal, frameAfterSignal>>

(* handleShutdown, lines 260-278 *)
handleShutdown ==
    /\ anims' = IF currentAnimation # 0 THEN AnimationStop(anims, currentAnimation)
                ELSE anims
    /\ Blackout
    /\ blackouts' = blackouts + 1
    /\ lastCalls' = (IF currentAnimation # 0 THEN <<"stop">> ELSE <<>>) \o <<"update">>
    /\ timers' = SetTimeout(timers, "stopped", GraceMs)
    /\ signalsHandled' = signalsHandled + 1
    /\ UNCHANGED <<currentAnimation, exitCode, runs, runsAfterSignal, frameAfterSignal>>

(* lines 281-283: a termination signal is delivered between two callbacks *)
Signal ==
    /\ pc = "running"
    /\ signalsHandled < MaxSignals
    /\ \E sig \in Signals : handleShutdown
    /\ UNCHANGED <<inputs, resolverVars, pc, now>>

(* a running animation sends a frame; at its end run() stops and runLoop()
   starts over *)
Frame ==
    /\ pc = "running"
    /\ \E k \in 1..Len(anims) :
          /\ anims[k].running
          /\ device' = FrameState(anims[k], now)
          /\ anims' = IF ~Finished(anims[k], now) THEN anims
                      ELSE IF anims[k].loop THEN [anims EXCEPT ![k].startedAt = now]
                      ELSE AnimationStop(anims, k)
    /\ frameAfterSignal' = (frameAfterSignal \/ signalsHandled > 0)
    /\ UNCHANGED <<inputs, resolverVars, pc, now, timers, currentAnimation, exitCode,
                   signalsHandled, runs, lastCalls, blackouts, runsAfterSignal>>

(* time passes once every due timer has fired and every animation that ran
   to its end has sent its last frame; a looping run, which never ends by
   itself, is followed for MaxTicks ticks *)
Tick ==
    /\ pc = "running"
    /\ shouldLoop => now < MaxTicks * TickMs
    /\ \A k \in 1..Len(timers) : timers[k].due > now
    /\ \A k \in 1..Len(anims) :
          anims[k].running /\ ~anims[k].loop => ~Finished(anims[k], now)
    /\ now' = now + TickMs
    /\ UNCHANGED <<inputs, resolverVars, pc, timers, anims, currentAnimation, device,
                   exitCode, signalsHandled, runs, lastCalls, blackouts,
                   runsAfterSignal, frameAfterSignal>>

Init ==
    /\ timeline \in ControlTimelines
    /\ presets = PresetTable
    /\ startTime \in StartTimes
    /\ shouldLoop \in BOOLEAN
    /\ loopInterval \in LoopIntervals
    /\ initialDelay \in InitialDelays
    /\ resolved = <<>>
    /\ rpc = "input"
    /\ pass = PassIdle
    /\ ControlIdle

Next ==
    \/ Main
    \/ InitialDelayElapsed
    \/ LoopIntervalElapsed
    \/ LoopPause
    \/ Completed
    \/ Stopped
    \/ Signal
    \/ Frame
    \/ Tick

Spec == Init /\ [][Next]_vars

(* a due timer of line 241 or line 288 has its callback run: under Next
   these are the steps of InitialDelayElapsed and LoopIntervalElapsed *)
TimerRuns ==
    /\ pc = "running"
    /\ \E k \in 1..Len(timers) :
          /\ Due(k)
          /\ timers[k].callback \in {"initialDelay", "loopInterval"}
    /\ runs' = runs + 1
    /\ now' = now

(* the event loop runs every due callback, a running animation sends the
   frame that ends it, and time passes *)
Fairness ==
    /\ WF_pc(Main)
    /\ WF_runs(TimerRuns)
    /\ WF_timers(LoopPause)
    /\ WF_pc(Completed)
    /\ WF_pc(Stopped)
    /\ WF_anims(Frame)
    /\ WF_now(Tick)

FairSpec == Spec /\ Fairness

----------------------------------------------------------------------------
(* Properties of createAnimation, checked under SpecResolve *)

(* the channel values an event lists: its own array, or the array of the
   first preset carrying its presetName; nothing otherwise *)
ListedChannels(event) ==
    IF event.type = "custom"
    THEN IF "channels" \in DOMAIN event THEN event.channels ELSE <<>>
    ELSE IF \E k \in 1..Len(presets) : presets[k].name = event.presetName
    THEN LET k == CHOOSE k \in 1..Len(presets) :
                      /\ presets[k].name = event.presetName
                      /\ \A m \in 1..(k - 1) : presets[m].name # event.presetName
         IN  presets[k].channels
    ELSE <<>>

(* new is old with channel i+1 overwritten by channels[i], nothing else changed *)
IsPatchOf(new, old, channels) ==
    /\ DOMAIN new = 1..NumChannels
    /\ \A c \in 1..NumChannels :
          new[c] = IF c <= Len(channels) THEN channels[c] ELSE old[c]

(* the events the loop of createAnimation processes, in the order it does *)
Processed == SelectSeq(SortByTime(timeline.events), LAMBDA e : e.time >= startTime)

(* indices of the events at or before the start time, and the last of them in
   time order, ties kept in input order *)
BeforeStart == {j \in 1..Len(timeline.events) : timeline.events[j].time <= startTime}

LastBeforeStart ==
    CHOOSE j \in BeforeStart :
        \A m \in BeforeStart :
            \/ timeline.events[m].time < timeline.events[j].time
            \/ timeline.events[m].time = timeline.events[j].time /\ m <= j

RECURSIVE SumDurations(_, _)
SumDurations(steps, from) ==
    IF from > Len(steps) THEN 0
    ELSE steps[from].duration + SumDurations(steps, from + 1)

RECURSIVE ReplayAll(_, _)
ReplayAll(state, events) ==
    IF events = <<>> THEN state
    ELSE LET chans == ListedChannels(events[1])
         IN  ReplayAll([c \in 1..NumChannels |->
                           IF c <= Len(chans) THEN chans[c] ELSE state[c]],
                       Tail(events))

(* C1: every step emitted for an event after the seed carries the listed value
   on each channel the event (or its matched preset) lists and the value of
   the preceding emitted state on every other channel of 1..512 *)
C1_PatchSemantics ==
    rpc = "resolved" =>
        /\ Len(resolved) >= 1 + Len(Processed)
        /\ \A k \in 1..Len(Processed) :
              IsPatchOf(resolved[k + 1].to, resolved[k].to, ListedChannels(Processed[k]))

(* an event listing only channel 1 is processed after a state with channel 2 lit *)
C1_Witness ==
    /\ rpc = "resolved"
    /\ \E k \in 1..Len(Processed) :
          /\ Len(ListedChannels(Processed[k])) = 1
          /\ resolved[k].to[2] = 128
          /\ resolved[k + 1].to[1] = 255
          /\ resolved[k + 1].to[2] = 128

(* C2 as stated: the seed state is the replay, onto the zero state and in
   time order, of all events with time <= startTime *)
C2_SeedIsFullReplay ==
    rpc = "resolved" =>
        resolved[1].to =
            ReplayAll(ZeroState,
                      SelectSeq(SortByTime(timeline.events), LAMBDA e : e.time <= startTime))

(* C3: the seed step has duration 0 and is the zero state patched by the last
   event at or before the start time only, the zero state when there is none *)
C3_SeedIsLastEventPatch ==
    rpc = "resolved" =>
        /\ resolved[1].duration = 0
        /\ IF BeforeStart = {}
           THEN resolved[1].to = ZeroState
           ELSE IsPatchOf(resolved[1].to, ZeroState,
                          ListedChannels(timeline.events[LastBeforeStart]))

(* two events at or before the start time list different channels, and the
   earlier one is given second in the input *)
C3_Witness ==
    /\ rpc = "resolved"
    /\ Cardinality(BeforeStart) = 2
    /\ LastBeforeStart = 1
    /\ ListedChannels(timeline.events[1]) = <<255>>
    /\ ListedChannels(timeline.events[2]) = <<0, 128>>
    /\ resolved[1].to[1] = 255
    /\ resolved[1].to[2] = 0

(* C4 as stated: the steps after the seed are the events with time > startTime,
   plus at most the final hold *)
C4_EventAtStartNotReplayed ==
    rpc = "resolved" =>
        LET later == Cardinality({j \in 1..Len(timeline.events) :
                                      timeline.events[j].time > startTime})
        IN  Len(resolved) - 1 \in {later, later + 1}

C11_FullSnapshots ==
    rpc = "resolved" =>
        \A k \in 1..Len(resolved) :
            (1..NumChannels) \subseteq DOMAIN resolved[k].to

(* an event with an empty channels array and a preset shorter than 512 are
   both processed after the seed *)
C11_Witness ==
    /\ rpc = "resolved"
    /\ Len(resolved) = 4
    /\ \E k \in 1..Len(Processed) :
          /\ "channels" \in DOMAIN Processed[k]
          /\ Processed[k].channels = <<>>
    /\ \E k \in 1..Len(Processed) :
          /\ Processed[k].type = "preset"
          /\ ListedChannels(Processed[k]) = <<0, 0, 255>>

(* the event is of type preset and no preset carries its presetName *)
UnknownPreset(event) ==
    /\ event.type = "preset"
    /\ \A k \in 1..Len(presets) : presets[k].name # event.presetName

(* C12: the step of an event naming an unknown preset repeats the preceding
   state, lasts from the previous time to the event's time, and the next step
   is measured from the event's time; a result is returned all the same *)
C12_UnknownPresetKeepsState ==
    rpc = "resolved" =>
        /\ Len(resolved) >= 1 + Len(Processed)
        /\ \A k \in 1..Len(Processed) :
              UnknownPreset(Processed[k]) =>
                  /\ resolved[k + 1].to = resolved[k].to
                  /\ resolved[k + 1].duration =
                        (Processed[k].time
                           - (IF k = 1 THEN startTime ELSE Processed[k - 1].time)) * 1000
                  /\ k < Len(Processed) =>
                        resolved[k + 2].duration =
                            (Processed[k + 1].time - Processed[k].time) * 1000
                  /\ (k = Len(Processed) /\ Len(resolved) = k + 2) =>
                        resolved[k + 2].duration =
                            (timeline.duration - Processed[k].time) * 1000

(* an unknown preset one second after an event lit channel 1, then the hold *)
C12_Witness ==
    /\ rpc = "resolved"
    /\ Len(Processed) = 2
    /\ UnknownPreset(Processed[2])
    /\ Len(resolved) = 4
    /\ resolved[2].to[1] = 255
    /\ resolved[3].to[1] = 255
    /\ resolved[3].duration = 1000
    /\ resolved[4].duration = 1000

(* C13: an empty event list resolved from 0 gives the zero seed at 0 ms and
   one zero hold of duration * 1000 ms, and nothing else *)
C13_EmptyTimelineTwoSteps ==
    (rpc = "resolved" /\ timeline.events = <<>> /\ startTime = 0) =>
        /\ Len(resolved) = 2
        /\ resolved[1].duration = 0
        /\ resolved[2].duration = timeline.duration * 1000
        /\ \A k \in 1..2 : \A c \in 1..NumChannels : resolved[k].to[c] = 0

C13_Witness ==
    /\ rpc = "resolved"
    /\ timeline.events = <<>>
    /\ startTime = 0
    /\ timeline.duration = 2
    /\ Len(resolved) = 2

(* C18: no emitted step has a negative duration *)
C18_NonNegativeDurations ==
    rpc = "resolved" => \A k \in 1..Len(resolved) : resolved[k].duration >= 0

(* two events given latest first, resolved from the beginning *)
C18_Witness ==
    /\ rpc = "resolved"
    /\ startTime = 0
    /\ Len(timeline.events) = 2
    /\ timeline.events[1].time = 2
    /\ timeline.events[2].time = 1
    /\ Len(resolved) = 3
    /\ resolved[2].duration = 1000
    /\ resolved[3].duration = 1000

----------------------------------------------------------------------------
(* Properties of the playback controller, checked under Spec *)

C6_NoRunAfterShutdown == runsAfterSignal = 0

(* C7 as stated: a run in which signals arrive ends with exactly one blackout
   sent since the first signal and with exit code 0 *)
C7_OneBlackoutThenExitZero ==
    (pc = "exited" /\ signalsHandled >= 1) => (blackouts = 1 /\ exitCode = 0)

(* C8 as stated: no playback frame is sent after the shutdown blackout, and at
   process exit the device holds the all-zero state *)
C8_DarkAtExit ==
    (pc = "exited" /\ signalsHandled >= 1) => (~frameAfterSignal /\ device = ZeroState)

(* C9: every invocation of handleShutdown sends the blackout, with or without
   a playback handle, and stops the handle first when there is one *)
C9_ShutdownAlwaysBlacksOut ==
    [][signalsHandled' # signalsHandled =>
          /\ device' = ZeroState
          /\ lastCalls' = IF currentAnimation = 0 THEN <<"update">>
                          ELSE <<"stop", "update">>
          /\ currentAnimation # 0 => ~anims'[currentAnimation].running]_vars

(* one signal during the initial delay, before any playback, and one after
   the playback started *)
C9_Witness ==
    /\ signalsHandled = 2
    /\ blackouts = 2
    /\ runs = 1
    /\ runsAfterSignal = 1
    /\ currentAnimation = 1
    /\ lastCalls = <<"stop", "update">>
    /\ device = ZeroState

(* C14 as stated: the process does not exit while a grace period armed by a
   shutdown handler is still running *)
C14_GraceBeforeExit ==
    pc = "exited" =>
        \A k \in 1..Len(timers) : timers[k].callback = "stopped" => timers[k].due <= now

(* the animations that have been started, not stopped, and whose summed step
   durations have not yet elapsed *)
Draining == {k \in 1..Len(anims) : anims[k].running /\ ~Finished(anims[k], now)}

(* C15 as stated: with a loop interval, no two playback sequences have steps
   left to play at the same time *)
C15_OneSequenceAtATime ==
    (shouldLoop /\ loopInterval > 0) => Cardinality(Draining) <= 1

IntervalLoop == shouldLoop /\ loopInterval > 0 /\ signalsHandled = 0

Pending(callback) == {k \in 1..Len(timers) : timers[k].callback = callback}

(* the delay setTimeout gives the completion timer *)
CompletionDelay ==
    LET delay == (timeline.duration - startTime) * 1000 + BufferMs
    IN  IF delay > 0 THEN delay ELSE 0

(* C16: with a loop interval and no signal, the pause is armed when the
   completion timer of the last started sequence fires and with the blackout
   sent; runAnimation is re-entered exactly loopInterval ms later by that
   timer; the process never exits and a continuation is always pending *)
C16_LoopCycle ==
    /\ [][IntervalLoop /\ Cardinality(Pending("loopInterval")') >
                              Cardinality(Pending("loopInterval"))
             => /\ now = anims[runs].startedAt + CompletionDelay
                /\ device' = ZeroState
                /\ lastCalls' = <<"update">>
                /\ \E k \in Pending("loopInterval")' : timers'[k].due = now + loopInterval
                /\ runs' = runs]_vars
    /\ [][IntervalLoop /\ runs >= 1 /\ runs' # runs
             => /\ runs' = runs + 1
                /\ \E k \in Pending("loopInterval") : timers[k].due = now
                /\ now = anims[runs].startedAt + CompletionDelay + loopInterval
                /\ lastCalls = <<"update">>]_vars
    /\ [](IntervalLoop /\ pc # "main"
             => /\ pc = "running"
                /\ Cardinality(Pending("initialDelay") \cup Pending("loopPause")
                                 \cup Pending("loopInterval")) = 1)

(* the third iteration of an interval loop is running *)
C16_Witness ==
    /\ IntervalLoop
    /\ runs = 3
    /\ Len(anims) = 3
    /\ now = anims[2].startedAt + CompletionDelay + loopInterval
    /\ Pending("loopPause") # {}

(* C17: without a loop and without a signal the process exits with code 0,
   only by the completion timer armed when the playback started, and after
   exactly one entry of runAnimation, made when the initial delay has passed *)
C17_NonLoopCompletes ==
    /\ <>(shouldLoop \/ signalsHandled > 0 \/ (pc = "exited" /\ exitCode = 0))
    /\ []((~shouldLoop /\ signalsHandled = 0)
             => /\ runs <= 1
                /\ runs = 1 => anims[1].startedAt = initialDelay
                /\ pc = "exited" => /\ runs = 1
                                    /\ exitCode = 0
                                    /\ now = anims[1].startedAt + CompletionDelay)
    /\ [][(~shouldLoop /\ signalsHandled = 0 /\ pc' = "exited")
             => \E k \in Pending("completed") :
                    /\ timers[k].due = now
                    /\ timers' = RemoveAt(timers, k)]_vars

(* a playback started after an initial delay has ended the process *)
C17_Witness ==
    /\ ~shouldLoop
    /\ signalsHandled = 0
    /\ initialDelay > 0
    /\ pc = "exited"
    /\ exitCode = 0
    /\ runs = 1
    /\ now = initialDelay + (timeline.duration - startTime) * 1000 + BufferMs


----------------------------------------------------------------------------
(* Claim of SpecPass *)

(* the steps of a call with each reference replaced by the object it names *)
Emitted(p) ==
    [k \in 1..Len(p.animation) |->
        [to |-> p.heap[p.animation[k].to], duration |-> p.animation[k].duration]]

(* C19: a resolution pass has no side effects outside its result: every
   statement of createAnimation leaves the caller's event list (order and
   contents) and the presets unchanged, no statement changes the state or
   the duration of a step that was already added, and the returned steps
   are the function createAnimation of those unchanged inputs, so a later
   pass resolves the same. *)
C19_NoSideEffects ==
    /\ [][/\ timeline' = timeline
          /\ presets' = presets
          /\ \A k \in 1..Len(pass.animation) :
                /\ k <= Len(pass'.animation)
                /\ Emitted(pass')[k] = Emitted(pass)[k]]_vars
    /\ [](pass.pc = "returned" =>
            Emitted(pass) = createAnimation(timeline.events, presets,
                                            timeline.duration, startTime))

(* a call returned for an unsorted event list: the seed, two targets of
   which the later differs from the earlier, and a final hold that shares
   the object of the last target *)
C19_Witness ==
    /\ pass.pc = "returned"
    /\ timeline.events # SortByTime(timeline.events)
    /\ pass.sortedEvents = SortByTime(timeline.events)
    /\ Len(pass.animation) = 4
    /\ Emitted(pass)[3].to # Emitted(pass)[2].to
    /\ pass.animation[4].to = pass.animation[3].to

====
